---- MODULE Spec2Model ----
(***************************************************************************)
(* Model of the RAM-machine assembler front end (src/src/parser.rs).       *)
(*                                                                         *)
(* Text is a sequence of characters, each a string naming one character.  *)
(* parse_line and its helpers are operators computed the way the Rust      *)
(* code computes them;                                                     *)
(* parse is a lazy iterator, modelled as a state machine that is pulled    *)
(* one item at a time.                                                     *)
(***************************************************************************)
EXTENDS Integers, Sequences, FiniteSets, TLC

VARIABLES
  source,   \* parse_line: the line text handed to parse_line
  line,     \* parse_line: the line index handed to parse_line
  result,   \* parse_line: the returned Result<Option<Stmt>, ParseError>
  pc,       \* "idle" | "ready" | "done" (parse_line), "iter" | "end" | "panic" (parse)
  text,     \* parse: the source text the iterator borrows
  cursor,   \* parse: number of lines the iterator has consumed
  items     \* parse: the items the consumer has pulled so far

vars == <<source, line, result, pc, text, cursor, items>>

----------------------------------------------------------------------------
(* Characters *)

UpperAlpha ==
  <<"A","B","C","D","E","F","G","H","I","J","K","L","M",
    "N","O","P","Q","R","S","T","U","V","W","X","Y","Z">>

LowerAlpha ==
  <<"a","b","c","d","e","f","g","h","i","j","k","l","m",
    "n","o","p","q","r","s","t","u","v","w","x","y","z">>

Digits == <<"0","1","2","3","4","5","6","7","8","9">>

Range(s) == { s[i] : i \in 1..Len(s) }

IndexOf(s, c) == CHOOSE i \in 1..Len(s) : s[i] = c

\* char::is_ascii_alphabetic
is_ascii_alphabetic(c) == c \in Range(UpperAlpha) \cup Range(LowerAlpha)

\* char::is_ascii_digit
is_ascii_digit(c) == c \in Range(Digits)

\* char::is_ascii_alphanumeric
is_ascii_alphanumeric(c) == is_ascii_alphabetic(c) \/ is_ascii_digit(c)

\* char::is_whitespace, on the white-space characters the model's texts use
is_whitespace(c) == c \in {" ", "\t", "\r", "\n"}

\* char::to_uppercase: ASCII letters, and the Cyrillic letter of
\* tests::test_label_is_not_valid (U+0444, upper case U+0424), which the
\* model writes as the one-character texts "u0444" and "u0424"
to_uppercase_char(c) ==
  IF c \in Range(LowerAlpha) THEN UpperAlpha[IndexOf(LowerAlpha, c)]
  ELSE IF c = "u0444" THEN "u0424"
  ELSE c

\* to_uppercase left out: the head is matched as written
to_uppercase_missing(s) == s

\* str::to_uppercase
to_uppercase(s) == [i \in 1..Len(s) |-> to_uppercase_char(s[i])]

----------------------------------------------------------------------------
(* String primitives of the standard library *)

\* str::strip_prefix / str::starts_with for a one-character pattern
starts_with(s, c) == Len(s) > 0 /\ s[1] = c

\* str::strip_suffix(':') succeeds
ends_with(s, c) == Len(s) > 0 /\ s[Len(s)] = c

\* the remainder strip_prefix returns
strip_prefix(s) == SubSeq(s, 2, Len(s))

\* the remainder strip_suffix returns
strip_suffix(s) == SubSeq(s, 1, Len(s) - 1)

\* str::split(c).next(): the text before the first c (all of it without a c)
RECURSIVE split_first(_, _)
split_first(s, c) ==
  IF s = <<>> \/ Head(s) = c THEN <<>>
  ELSE <<Head(s)>> \o split_first(Tail(s), c)

\* str::trim_start
RECURSIVE trim_start(_)
trim_start(s) ==
  IF s # <<>> /\ is_whitespace(Head(s)) THEN trim_start(Tail(s)) ELSE s

\* str::trim_end
RECURSIVE trim_end(_)
trim_end(s) ==
  IF s # <<>> /\ is_whitespace(s[Len(s)]) THEN trim_end(SubSeq(s, 1, Len(s) - 1))
  ELSE s

\* str::trim
trim(s) == trim_end(trim_start(s))

\* the first token of a text that starts with a non-white-space character
RECURSIVE take_word(_)
take_word(s) ==
  IF s = <<>> \/ is_whitespace(Head(s)) THEN <<>>
  ELSE <<Head(s)>> \o take_word(Tail(s))

\* str::split_whitespace().collect(): the maximal runs of non-white-space
RECURSIVE split_whitespace(_)
split_whitespace(s) ==
  LET t == trim_start(s) IN
  IF t = <<>> THEN <<>>
  ELSE LET w == take_word(t) IN
       <<w>> \o split_whitespace(SubSeq(t, Len(w) + 1, Len(t)))

----------------------------------------------------------------------------
(* Integer literals: str::parse::<usize>() and the parse of a Pure value *)

DigitVal(c) == IndexOf(Digits, c) - 1

all_digits(s) == \A i \in 1..Len(s) : is_ascii_digit(s[i])

RECURSIVE strip_zeros(_)
strip_zeros(s) ==
  IF Len(s) > 1 /\ Head(s) = "0" THEN strip_zeros(Tail(s)) ELSE s

\* a <= b for two numerals without leading zeros
NumeralLeq(a, b) ==
  \/ Len(a) < Len(b)
  \/ /\ Len(a) = Len(b)
     /\ \/ a = b
        \/ \E i \in 1..Len(a) :
             /\ SubSeq(a, 1, i - 1) = SubSeq(b, 1, i - 1)
             /\ DigitVal(a[i]) < DigitVal(b[i])

\* the number a numeral denotes (digit by digit, as from_str_radix does)
RECURSIVE NumeralValue(_)
NumeralValue(s) ==
  IF s = <<>> THEN 0
  ELSE 10 * NumeralValue(SubSeq(s, 1, Len(s) - 1)) + DigitVal(s[Len(s)])

\* usize::MAX on a 64-bit target, as a numeral
UsizeMax ==
  <<"1","8","4","4","6","7","4","4","0","7","3","7","0","9","5","5","1","6","1","5">>

\* i64::MAX, as a numeral
I64Max ==
  <<"9","2","2","3","3","7","2","0","3","6","8","5","4","7","7","5","8","0","7">>

\* the magnitude of i64::MIN, as a numeral
I64MinAbs ==
  <<"9","2","2","3","3","7","2","0","3","6","8","5","4","7","7","5","8","0","8">>

ParseOk(n) == [ok |-> TRUE, n |-> n]

ParseErr == [ok |-> FALSE, n |-> 0]

\* str::parse::<usize>(): an optional '+', then one or more ASCII digits,
\* no '-', and a value of at most usize::MAX
parse_usize(s) ==
  LET body == IF starts_with(s, "+") THEN Tail(s) ELSE s IN
  IF body = <<>> \/ ~all_digits(body) THEN ParseErr
  ELSE IF ~NumeralLeq(strip_zeros(body), UsizeMax) THEN ParseErr
  ELSE ParseOk(NumeralValue(strip_zeros(body)))

\* the parse of RegisterValue::Indirect's field, a non-negative integer
parse_index(s) == parse_usize(s)

\* the parse of Value::Pure's field, a signed integer: an optional '+' or
\* '-', then one or more ASCII digits, and a value within the i64 range
parse_pure(s) ==
  LET neg  == starts_with(s, "-")
      body == IF starts_with(s, "+") \/ neg THEN Tail(s) ELSE s
  IN
  IF body = <<>> \/ ~all_digits(body) THEN ParseErr
  ELSE IF ~NumeralLeq(strip_zeros(body), IF neg THEN I64MinAbs ELSE I64Max)
       THEN ParseErr
  ELSE ParseOk(IF neg THEN 0 - NumeralValue(strip_zeros(body))
                      ELSE NumeralValue(strip_zeros(body)))

----------------------------------------------------------------------------
(* Operands, statements and errors.  Every value is a record with the same *)
(* fields, so that any two of them can be compared.                        *)

NoArg == [form |-> "None", reg |-> "", n |-> 0, name |-> <<>>]

\* RegisterValue::Direct
Direct(n) == [NoArg EXCEPT !.form = "Direct", !.n = n]

\* RegisterValue::Indirect
Indirect(n) == [NoArg EXCEPT !.form = "Indirect", !.n = n]

\* Value::Pure
Pure(n) == [NoArg EXCEPT !.form = "Pure", !.n = n]

\* Value::Register
Register(rv) == [NoArg EXCEPT !.form = "Register", !.reg = rv.form, !.n = rv.n]

\* Label::new
LabelNew(s) == [NoArg EXCEPT !.form = "Label", !.name = s]

\* the label name taken from the upper-cased head
Name_uppercased(s) == [NoArg EXCEPT !.form = "String", !.name = to_uppercase(s)]

\* the String field of Stmt::Label
Name(s) == [NoArg EXCEPT !.form = "String", !.name = s]

\* Ok(stmt): a statement of the given variant
Stmt(kind, arg, l) ==
  [tag |-> "Ok", kind |-> kind, line |-> l, arg |-> arg, sub |-> "", opcode |-> <<>>]

\* Err(ParseError::kind(l))
Err(kind, l) ==
  [tag |-> "Err", kind |-> kind, line |-> l, arg |-> NoArg, sub |-> "", opcode |-> <<>>]

\* Err(ParseError::UnsupportedOpcode(l, opcode))
UnsupportedOpcode(l, opcode) == [Err("UnsupportedOpcode", l) EXCEPT !.opcode = opcode]

\* Err(ParseError::ArgumentIsNotValid(l, sub))
ArgumentIsNotValid(l, sub) == [Err("ArgumentIsNotValid", l) EXCEPT !.sub = sub]

pure_argument_not_allowed(index) == ArgumentIsNotValid(index, "PureArgumentIsNotAllowed")

not_valid_argument(index) == ArgumentIsNotValid(index, "ArgumentIsNotValid")

argument_value_must_be_numeric(index) ==
  ArgumentIsNotValid(index, "ArgumentValueMustBeNumberic")

\* Ok(None)
OkNone ==
  [tag |-> "None", kind |-> "", line |-> 0, arg |-> NoArg, sub |-> "", opcode |-> <<>>]

\* Ok(Some(stmt))
OkSome(r) == [r EXCEPT !.tag = "Some"]

\* the panic of unreachable!()
Unreachable ==
  [tag |-> "Unreachable", kind |-> "", line |-> 0, arg |-> NoArg, sub |-> "",
   opcode |-> <<>>]

\* the text of a mnemonic
Chars(name) ==
  CASE name = "LOAD"   -> <<"L","O","A","D">>
    [] name = "ADD"    -> <<"A","D","D">>
    [] name = "SUB"    -> <<"S","U","B">>
    [] name = "MUL"    -> <<"M","U","L">>
    [] name = "DIV"    -> <<"D","I","V">>
    [] name = "WRITE"  -> <<"W","R","I","T","E">>
    [] name = "OUTPUT" -> <<"O","U","T","P","U","T">>
    [] name = "JUMP"   -> <<"J","U","M","P">>
    [] name = "JMP"    -> <<"J","M","P">>
    [] name = "JZ"     -> <<"J","Z">>
    [] name = "JZERO"  -> <<"J","Z","E","R","O">>
    [] name = "JGZ"    -> <<"J","G","Z">>
    [] name = "JGTZ"   -> <<"J","G","T","Z">>
    [] name = "STORE"  -> <<"S","T","O","R","E">>
    [] name = "INPUT"  -> <<"I","N","P","U","T">>
    [] name = "READ"   -> <<"R","E","A","D">>
    [] name = "HALT"   -> <<"H","A","L","T">>

\* the opcodes of the first arm of parse_line's match
ValueOpcodes == {"LOAD", "ADD", "SUB", "MUL", "DIV", "WRITE", "OUTPUT"}

\* the opcodes of the second arm
LabelOpcodes == {"JUMP", "JMP", "JZ", "JZERO", "JGZ", "JGTZ"}

\* the opcodes of the third arm
RegisterOpcodes == {"STORE", "INPUT", "READ"}

\* opcode.as_str() matches one of the string patterns
Matches(opcode, names) == \E m \in names : opcode = Chars(m)

----------------------------------------------------------------------------
(* The parser *)

\* is_valid_label without the test of the first character
is_valid_label_any_first(label) ==
  IF label = <<>> THEN FALSE
  ELSE \A i \in 1..Len(label) :
         is_ascii_alphanumeric(label[i]) \/ label[i] = "_" \/ is_ascii_digit(label[i])

is_valid_label(label) ==
  IF label = <<>> THEN FALSE
  ELSE LET first == Head(label) IN
       IF ~is_ascii_alphabetic(first) /\ first # "_" THEN FALSE
       ELSE \A i \in 1..Len(label) :
              is_ascii_alphanumeric(label[i]) \/ label[i] = "_" \/ is_ascii_digit(label[i])

\* parse_with_register without the branch for a '=' prefix
parse_with_register_no_pure_branch(opcode, tail, l) ==
  LET arg ==
        IF starts_with(tail, "*") THEN
          LET p == parse_index(strip_prefix(tail)) IN
          IF p.ok THEN Stmt("", Indirect(p.n), l)
          ELSE argument_value_must_be_numeric(l)
        ELSE IF parse_usize(tail).ok THEN Stmt("", Direct(parse_usize(tail).n), l)
        ELSE not_valid_argument(l)
  IN
  IF arg.tag = "Err" THEN arg
  ELSE IF Matches(opcode, {"STORE"}) THEN Stmt("Store", arg.arg, l)
  ELSE IF Matches(opcode, {"INPUT", "READ"}) THEN Stmt("Input", arg.arg, l)
  ELSE Unreachable

\* parse_with_register whose arms pair READ with STORE instead of INPUT
parse_with_register_read_as_store(opcode, tail, l) ==
  LET arg ==
        IF starts_with(tail, "*") THEN
          LET p == parse_index(strip_prefix(tail)) IN
          IF p.ok THEN Stmt("", Indirect(p.n), l)
          ELSE argument_value_must_be_numeric(l)
        ELSE IF parse_usize(tail).ok THEN Stmt("", Direct(parse_usize(tail).n), l)
        ELSE IF starts_with(tail, "=") THEN pure_argument_not_allowed(l)
        ELSE not_valid_argument(l)
  IN
  IF arg.tag = "Err" THEN arg
  ELSE IF Matches(opcode, {"STORE", "READ"}) THEN Stmt("Store", arg.arg, l)
  ELSE IF Matches(opcode, {"INPUT"}) THEN Stmt("Input", arg.arg, l)
  ELSE Unreachable

parse_with_register(opcode, tail, l) ==
  LET arg ==
        IF starts_with(tail, "*") THEN
          LET p == parse_index(strip_prefix(tail)) IN
          IF p.ok THEN Stmt("", Indirect(p.n), l)
          ELSE argument_value_must_be_numeric(l)
        ELSE IF parse_usize(tail).ok THEN Stmt("", Direct(parse_usize(tail).n), l)
        ELSE IF starts_with(tail, "=") THEN pure_argument_not_allowed(l)
        ELSE not_valid_argument(l)
  IN
  IF arg.tag = "Err" THEN arg
  ELSE IF Matches(opcode, {"STORE"}) THEN Stmt("Store", arg.arg, l)
  ELSE IF Matches(opcode, {"INPUT", "READ"}) THEN Stmt("Input", arg.arg, l)
  ELSE Unreachable

\* parse_with_value without the branch for a '*' prefix
parse_with_value_no_indirect_branch(head, tail, l) ==
  LET arg ==
        IF starts_with(tail, "=") THEN
          LET p == parse_pure(strip_prefix(tail)) IN
          IF p.ok THEN Stmt("", Pure(p.n), l)
          ELSE argument_value_must_be_numeric(l)
        ELSE IF parse_usize(tail).ok
          THEN Stmt("", Register(Direct(parse_usize(tail).n)), l)
        ELSE not_valid_argument(l)
  IN
  IF arg.tag = "Err" THEN arg
  ELSE IF Matches(head, {"LOAD"}) THEN Stmt("Load", arg.arg, l)
  ELSE IF Matches(head, {"OUTPUT", "WRITE"}) THEN Stmt("Output", arg.arg, l)
  ELSE IF Matches(head, {"ADD"}) THEN Stmt("Add", arg.arg, l)
  ELSE IF Matches(head, {"SUB"}) THEN Stmt("Sub", arg.arg, l)
  ELSE IF Matches(head, {"MUL"}) THEN Stmt("Mul", arg.arg, l)
  ELSE IF Matches(head, {"DIV"}) THEN Stmt("Div", arg.arg, l)
  ELSE Unreachable

parse_with_value(head, tail, l) ==
  LET arg ==
        IF starts_with(tail, "=") THEN
          LET p == parse_pure(strip_prefix(tail)) IN
          IF p.ok THEN Stmt("", Pure(p.n), l)
          ELSE argument_value_must_be_numeric(l)
        ELSE IF starts_with(tail, "*") THEN
          LET p == parse_index(strip_prefix(tail)) IN
          IF p.ok THEN Stmt("", Register(Indirect(p.n)), l)
          ELSE argument_value_must_be_numeric(l)
        ELSE IF parse_usize(tail).ok
          THEN Stmt("", Register(Direct(parse_usize(tail).n)), l)
        ELSE not_valid_argument(l)
  IN
  IF arg.tag = "Err" THEN arg
  ELSE IF Matches(head, {"LOAD"}) THEN Stmt("Load", arg.arg, l)
  ELSE IF Matches(head, {"OUTPUT", "WRITE"}) THEN Stmt("Output", arg.arg, l)
  ELSE IF Matches(head, {"ADD"}) THEN Stmt("Add", arg.arg, l)
  ELSE IF Matches(head, {"SUB"}) THEN Stmt("Sub", arg.arg, l)
  ELSE IF Matches(head, {"MUL"}) THEN Stmt("Mul", arg.arg, l)
  ELSE IF Matches(head, {"DIV"}) THEN Stmt("Div", arg.arg, l)
  ELSE Unreachable

\* parse_with_label whose last arm lacks the alias JGTZ
parse_with_label_no_jgtz(head, tail, l) ==
  IF ~is_valid_label(tail) THEN Err("LabelIsNotValid", l)
  ELSE IF Matches(head, {"JUMP", "JMP"}) THEN Stmt("Jump", LabelNew(tail), l)
  ELSE IF Matches(head, {"JZ", "JZERO"}) THEN Stmt("JumpIfZero", LabelNew(tail), l)
  ELSE IF Matches(head, {"JGZ"}) THEN Stmt("JumpGreatherZero", LabelNew(tail), l)
  ELSE Unreachable

parse_with_label(head, tail, l) ==
  IF ~is_valid_label(tail) THEN Err("LabelIsNotValid", l)
  ELSE IF Matches(head, {"JUMP", "JMP"}) THEN Stmt("Jump", LabelNew(tail), l)
  ELSE IF Matches(head, {"JZ", "JZERO"}) THEN Stmt("JumpIfZero", LabelNew(tail), l)
  ELSE IF Matches(head, {"JGZ", "JGTZ"}) THEN Stmt("JumpGreatherZero", LabelNew(tail), l)
  ELSE Unreachable

\* the tokens of a line: the text before the first '#', split on white space
Facts(src) == split_whitespace(split_first(src, "#"))

\* tail.unwrap_or("") in place of tail.ok_or(..)?: a missing tail is handed
\* to the operand parser as the empty text
Required_default_tail(hasTail, r, l) ==
  IF r.tag = "Ok" THEN OkSome(r) ELSE r

\* tail.ok_or(ParseError::ArgumentIsRequired(line))? followed by `?` on the
\* Result r of the operand parser: without a tail the error is returned and
\* the operand parser is not called; Ok(stmt) becomes Ok(Some(stmt)); an
\* error or a panic of the operand parser is passed on
Required(hasTail, r, l) ==
  IF ~hasTail THEN Err("ArgumentIsRequired", l)
  ELSE IF r.tag = "Ok" THEN OkSome(r)
  ELSE r

\* parse_line from `let head` on: the label declaration, then the opcode
Classify(facts, l) ==
  LET head    == trim(facts[1])
      hasTail == Len(facts) >= 2
      tail    == IF hasTail THEN facts[2] ELSE <<>>
  IN
  IF ends_with(head, ":") THEN
    LET label == strip_suffix(head) IN
    IF is_valid_label(label) THEN OkSome(Stmt("Label", Name(label), l))
    ELSE Err("LabelIsNotValid", l)
  ELSE
    LET opcode == to_uppercase(head) IN
    IF Matches(opcode, ValueOpcodes)
      THEN Required(hasTail, parse_with_value(opcode, tail, l), l)
    ELSE IF Matches(opcode, LabelOpcodes)
      THEN Required(hasTail, parse_with_label(opcode, tail, l), l)
    ELSE IF Matches(opcode, RegisterOpcodes)
      THEN Required(hasTail, parse_with_register(opcode, tail, l), l)
    ELSE IF Matches(opcode, {"HALT"}) THEN OkSome(Stmt("Halt", NoArg, l))
    ELSE UnsupportedOpcode(l, opcode)

\* parse_line with the token ceiling tested after the classification
parse_line_late_ceiling(src, l) ==
  LET facts == Facts(src) IN
  IF facts = <<>> THEN OkNone
  ELSE IF Classify(facts, l).tag = "Err" THEN Classify(facts, l)
  ELSE IF Len(facts) > 2 THEN Err("UnsupportedSyntax", l)
  ELSE Classify(facts, l)

parse_line(src, l) ==
  LET facts == Facts(src) IN
  IF Len(facts) > 2 THEN Err("UnsupportedSyntax", l)
  ELSE IF facts = <<>> THEN OkNone
  ELSE Classify(facts, l)

----------------------------------------------------------------------------
(* Inputs *)

\* the largest line index handed to parse_line
MaxLineIdx == 1

\* the longest label text L of a line "L:"
MaxLabelLen == 3

\* the largest number of lines of a source text handed to parse
MaxLines == 3

to_lowercase_char(c) ==
  IF c \in Range(UpperAlpha) THEN LowerAlpha[IndexOf(UpperAlpha, c)]
  ELSE IF c = "u0424" THEN "u0444"
  ELSE c

Lower(s) == [i \in 1..Len(s) |-> to_lowercase_char(s[i])]

Capitalised(s) == [i \in 1..Len(s) |-> IF i = 1 THEN s[i] ELSE to_lowercase_char(s[i])]

Mnemonics == ValueOpcodes \cup LabelOpcodes \cup RegisterOpcodes \cup {"HALT"}

\* every mnemonic in upper case, in lower case and capitalised
OpcodeTokens ==
  UNION { {Chars(m), Lower(Chars(m)), Capitalised(Chars(m))} : m \in Mnemonics }

\* heads that are no mnemonic and no label declaration
OtherTokens ==
  {<<"N","O","P">>, <<"n","o","p">>, <<"x">>, <<"7">>, <<"=","5">>,
     <<"L","O","A","D","S">>, <<"H","A","L">>,
     <<"u0444","u0444">>}

\* heads that end with ':'
LabelTokens ==
  {<<"x",":">>, <<"X",":">>, <<"a","_","1",":">>, <<"_",":">>,
     <<"1","x",":">>, <<":">>, <<"L","O","A","D",":">>,
     <<"l","o","a","d",":">>, <<"x",":",":">>, <<"a","-","b",":">>,
     <<"=","1",":">>,
     <<"u0444","u0444",":">>}

HeadTokens == OpcodeTokens \cup OtherTokens \cup LabelTokens

\* operands: literals with and without sign and prefix, identifiers, and
\* literals beyond usize::MAX and the i64 range
TailTokens ==
  {<<"3">>, <<"0","3">>, <<"+","3">>, <<"-","3">>, <<"*","3">>,
     <<"*","0","3">>, <<"*","+","3">>, <<"*","-","3">>, <<"*","a">>, <<"*">>,
     <<"=","5">>, <<"=","-","5">>, <<"=","+","5">>, <<"=","a">>, <<"=">>,
     <<"=","-">>, <<"a">>, <<"L","1">>, <<"_","x">>, <<"1","x">>,
     <<"=","*","3">>, <<"*","=","3">>, <<"x",":">>,
     <<"9","9","9","9","9","9","9","9","9","9","9","9","9","9","9","9","9","9","9","9","9">>,
     <<"*","9","9","9","9","9","9","9","9","9","9","9","9","9","9","9","9","9","9","9","9","9">>,
     <<"=","9","9","9","9","9","9","9","9","9","9","9","9","9","9","9","9","9","9","9","9","9">>,
     <<"=","-","9","9","9","9","9","9","9","9","9","9","9","9","9","9","9","9","9","9","9","9","9">>,
     <<"1","8","4","4","6","7","4","4","0","7","3","7","0","9","5","5","1","6","1","6">>,
     <<"*","1","8","4","4","6","7","4","4","0","7","3","7","0","9","5","5","1","6","1","6">>,
     <<"u0444">>}

\* a third and a fourth token
ExtraTokens == {<<"2">>, <<"y",":">>}

Space == <<" ">>

\* ways of laying out a head and a tail on a line
TwoTokenLines(h, t) ==
  { h \o Space \o t,
    <<" ", "\t">> \o h \o <<"\t", " ">> \o t \o <<" ", "#", " ", "c", " ", "d">>,
    h \o Space \o t \o <<"#", "x">>,
    h \o Space \o <<"#">> \o t,
    h \o <<"#">> \o t }

LineInputs ==
  {<<>>, Space, <<"#">>, <<" ", "#", " ", "c">>}
  \cup { h : h \in HeadTokens \cup TailTokens }
  \cup { Space \o h \o <<"\t", "#", "c">> : h \in HeadTokens }
  \cup UNION { TwoTokenLines(h, t) : h \in HeadTokens, t \in TailTokens }
  \cup { h \o Space \o t \o Space \o e :
           h \in HeadTokens, t \in {<<"1">>, <<"=","1">>, <<"x">>}, e \in ExtraTokens }
  \cup { h \o Space \o t \o Space \o e \o Space \o t \o <<"#">> :
           h \in HeadTokens, t \in {<<"1">>}, e \in ExtraTokens }

\* the characters of a label text L
LabelAlphabet == {"a", "Z", "_", "1", " ", "#", ":", "u0444"}

RECURSIVE StringsUpTo(_, _)
StringsUpTo(alphabet, n) ==
  IF n = 0 THEN {<<>>}
  ELSE LET shorter == StringsUpTo(alphabet, n - 1) IN
       shorter \cup { Append(s, c) : s \in shorter, c \in alphabet }

\* the lines "L:" for every text L of at most MaxLabelLen characters
LabelInputs == { L \o <<":">> : L \in StringsUpTo(LabelAlphabet, MaxLabelLen) }

----------------------------------------------------------------------------
(* parse_line, applied to one line *)

InitLine ==
  /\ source \in LineInputs \cup LabelInputs
  /\ line \in 0..MaxLineIdx
  /\ result = OkNone
  /\ pc = "ready"
  /\ text = <<>>
  /\ cursor = 0
  /\ items = <<>>

ParseLine ==
  /\ pc = "ready"
  /\ result' = parse_line(source, line)
  /\ pc' = "done"
  /\ UNCHANGED <<source, line, text, cursor, items>>

NextLine == ParseLine

SpecLine == InitLine /\ [][NextLine]_vars

----------------------------------------------------------------------------
(* parse: the lazy iterator over the lines of a source text *)

\* str::lines(): the text is cut after every "\n"; a line loses its "\n"
\* and then one "\r" before it; the last line needs no "\n"
RECURSIVE lines(_)
lines(s) ==
  IF s = <<>> THEN <<>>
  ELSE LET l          == split_first(s, "\n")
           terminated == Len(l) < Len(s)
           stripped   == IF terminated /\ ends_with(l, "\r") THEN strip_suffix(l) ELSE l
       IN <<stripped>> \o lines(SubSeq(s, Len(l) + 2, Len(s)))

\* the lines numbered from 1
MapLine_one_based(ls, k) == parse_line(trim(ls[k]), k)

\* .enumerate().map(trim).map(parse_line) on the k-th line (the first is k = 1)
MapLine(ls, k) == parse_line(trim(ls[k]), k - 1)

\* Option::transpose of a Result that is not Ok(None): Ok(Some(stmt)) is the
\* item Ok(stmt), Err(e) is the item Err(e)
transpose(r) == IF r.tag = "Some" THEN [r EXCEPT !.tag = "Ok"] ELSE r

\* filter_map: the first line after the first k lines whose result is not
\* Ok(None), or Len(ls) + 1 when there is none
RECURSIVE filter_map(_, _)
filter_map(ls, k) ==
  IF k >= Len(ls) THEN Len(ls) + 1
  ELSE IF MapLine(ls, k + 1).tag # "None" THEN k + 1
  ELSE filter_map(ls, k + 1)

\* the lines a source text is made of
LineSamples ==
  { <<>>,
    <<" ", "\t">>,
    <<"#", "c">>,
    <<"x", ":">>,
    <<"1", "x", ":">>,
    <<" ", "L", "O", "A", "D", " ", "=", "5", " ", "#", "c">>,
    <<"A", " ", "1", " ", "2">> }

RECURSIVE SeqsUpTo(_, _)
SeqsUpTo(S, n) ==
  IF n = 0 THEN {<<>>}
  ELSE LET shorter == SeqsUpTo(S, n - 1) IN
       shorter \cup { Append(q, x) : q \in shorter, x \in S }

RECURSIVE Join(_, _)
Join(ls, nl) ==
  IF ls = <<>> THEN <<>>
  ELSE IF Len(ls) = 1 THEN ls[1]
  ELSE ls[1] \o nl \o Join(Tail(ls), nl)

\* the line endings of a source text
LineEndings == {<<"\n">>, <<"\r", "\n">>}

\* source texts of at most MaxLines lines, with and without a final line ending
SourceTexts ==
  UNION { {Join(ls, nl), Join(ls, nl) \o nl} :
            ls \in SeqsUpTo(LineSamples, MaxLines), nl \in LineEndings }

InitParse ==
  /\ text \in SourceTexts
  /\ cursor = 0
  /\ items = <<>>
  /\ pc = "iter"
  /\ source = <<>>
  /\ line = 0
  /\ result = OkNone

\* Iterator::next returns Some(item)
NextItem ==
  /\ pc = "iter"
  /\ LET ls == lines(text)
         k  == filter_map(ls, cursor)
     IN /\ k <= Len(ls)
        /\ cursor' = k
        /\ IF MapLine(ls, k).tag = "Unreachable"
             THEN pc' = "panic" /\ items' = items
             ELSE pc' = pc /\ items' = Append(items, transpose(MapLine(ls, k)))
  /\ UNCHANGED <<text, source, line, result>>

\* Iterator::next returns None
NextNone ==
  /\ pc = "iter"
  /\ LET ls == lines(text) IN
       /\ filter_map(ls, cursor) > Len(ls)
       /\ cursor' = Len(ls)
  /\ pc' = "end"
  /\ UNCHANGED <<text, items, source, line, result>>

NextParse == NextItem \/ NextNone

SpecParse == InitParse /\ [][NextParse]_vars

----------------------------------------------------------------------------
(* What the properties speak about: the tokens of a line, read off the     *)
(* text position by position                                               *)

\* the position of the first '#', or one past the end
HashAt(s) ==
  IF "#" \in Range(s) THEN CHOOSE i \in 1..Len(s) : s[i] = "#" /\ \A j \in 1..(i - 1) : s[j] # "#"
  ELSE Len(s) + 1

\* the text before the first '#'
CodePart(s) == SubSeq(s, 1, HashAt(s) - 1)

\* the positions where a token starts
TokenStarts(s) ==
  LET c == CodePart(s) IN
  { i \in 1..Len(c) : ~is_whitespace(c[i]) /\ (i = 1 \/ is_whitespace(c[i - 1])) }

TokenCount(s) == Cardinality(TokenStarts(s))

\* the token that starts at position i
TokenAt(s, i) ==
  LET c == CodePart(s)
      e == CHOOSE j \in i..Len(c) :
             /\ \A k \in i..j : ~is_whitespace(c[k])
             /\ j = Len(c) \/ is_whitespace(c[j + 1])
  IN SubSeq(c, i, e)

HeadStart(s) == CHOOSE i \in TokenStarts(s) : \A j \in TokenStarts(s) : i <= j

HeadOf(s) == TokenAt(s, HeadStart(s))

TailOf(s) ==
  LET rest == TokenStarts(s) \ {HeadStart(s)} IN
  TokenAt(s, CHOOSE i \in rest : \A j \in rest : i <= j)

\* the line with another head in place of its head
ReplaceHead(s, h) ==
  SubSeq(s, 1, HeadStart(s) - 1) \o h \o SubSeq(s, HeadStart(s) + Len(HeadOf(s)), Len(s))

UpperCased(s) ==
  [i \in 1..Len(s) |->
     IF s[i] \in Range(LowerAlpha) THEN UpperAlpha[IndexOf(LowerAlpha, s[i])]
     ELSE IF s[i] = "u0444" THEN "u0424"
     ELSE s[i]]

\* the head in upper case, in lower case, and with the case of one letter changed
CaseVariants(h) ==
  {UpperCased(h), Lower(h)}
  \cup { [h EXCEPT ![i] = IF h[i] = Lower(h)[i] THEN UpperCased(h)[i] ELSE Lower(h)[i]] :
           i \in 1..Len(h) }

TextsOf(names) == { Chars(m) : m \in names }

\* the other mnemonic of each alias pair
Alias ==
  [m \in {"JUMP", "JMP", "JZ", "JZERO", "JGZ", "JGTZ", "WRITE", "OUTPUT", "INPUT", "READ"} |->
     CASE m = "JUMP" -> "JMP"     [] m = "JMP" -> "JUMP"
       [] m = "JZ" -> "JZERO"     [] m = "JZERO" -> "JZ"
       [] m = "JGZ" -> "JGTZ"     [] m = "JGTZ" -> "JGZ"
       [] m = "WRITE" -> "OUTPUT" [] m = "OUTPUT" -> "WRITE"
       [] m = "INPUT" -> "READ"   [] m = "READ" -> "INPUT"]

\* the label-validity predicate as the specification words it
LabelPredicate(L) ==
  /\ L # <<>>
  /\ is_ascii_alphabetic(L[1]) \/ L[1] = "_"
  /\ \A i \in 1..Len(L) : is_ascii_alphabetic(L[i]) \/ is_ascii_digit(L[i]) \/ L[i] = "_"

\* parse_line has returned
Done == pc = "done"

\* the line has the form "L:"
IsLabelLine == Done /\ ends_with(source, ":")

\* the L of a line "L:"
LabelText == SubSeq(source, 1, Len(source) - 1)

----------------------------------------------------------------------------
(* Properties *)

\* C1: a line with more than two tokens before its first '#' is answered
\* with UnsupportedSyntax(line), whatever its first token is.
C1_TokenCeiling ==
  (Done /\ TokenCount(source) > 2) => result = Err("UnsupportedSyntax", line)

\* a line of more than two tokens whose head is no mnemonic and no label
C1_Witness ==
  /\ Done
  /\ TokenCount(source) > 2
  /\ UpperCased(HeadOf(source)) \notin TextsOf(Mnemonics)
  /\ ~ends_with(HeadOf(source), ":")
  /\ result = Err("UnsupportedSyntax", line)

\* C2 as stated: for every text L that fails the label-validity predicate,
\* texts with white space or '#' included, the line "L:" is answered with
\* LabelIsNotValid(line).
C2_AnyInvalidLabel ==
  (IsLabelLine /\ ~LabelPredicate(LabelText)) => result = Err("LabelIsNotValid", line)

\* C2 amended: for every text L without white space and without '#' that
\* fails the label-validity predicate, the line "L:" is answered with
\* LabelIsNotValid(line).
C2_InvalidLabelToken ==
  (/\ IsLabelLine
   /\ ~LabelPredicate(LabelText)
   /\ \A i \in 1..Len(LabelText) : ~is_whitespace(LabelText[i]) /\ LabelText[i] # "#")
  => result = Err("LabelIsNotValid", line)

\* a label text that starts with a digit and has no white space and no '#'
C2_Witness ==
  /\ IsLabelLine
  /\ LabelText # <<>>
  /\ is_ascii_digit(LabelText[1])
  /\ \A i \in 1..Len(LabelText) : is_ascii_alphanumeric(LabelText[i])
  /\ result = Err("LabelIsNotValid", line)

\* C3: for every text L that satisfies the label-validity predicate, the
\* line "L:" yields the statement Label(L, line), the name in the letter
\* case of L.
C3_ValidLabel ==
  (IsLabelLine /\ LabelPredicate(LabelText))
  => /\ result.tag = "Some"
     /\ result.kind = "Label"
     /\ result.arg = [NoArg EXCEPT !.form = "String", !.name = LabelText]
     /\ result.line = line

\* a valid label text with a lower-case and an upper-case letter
C3_Witness ==
  /\ IsLabelLine
  /\ LabelPredicate(LabelText)
  /\ "a" \in Range(LabelText) /\ "Z" \in Range(LabelText)
  /\ result.kind = "Label" /\ result.arg.name = LabelText

\* the operand of a register-family line under the rules of C5, or the
\* sub-kind of its ArgumentIsNotValid error; a literal is one that
\* parse::<usize>() accepts
RegisterOperand(t) ==
  IF starts_with(t, "*") THEN
    IF parse_usize(strip_prefix(t)).ok
      THEN [sub |-> "", arg |-> Indirect(parse_usize(strip_prefix(t)).n)]
      ELSE [sub |-> "ArgumentValueMustBeNumberic", arg |-> NoArg]
  ELSE IF parse_usize(t).ok THEN [sub |-> "", arg |-> Direct(parse_usize(t).n)]
  ELSE IF starts_with(t, "=") THEN [sub |-> "PureArgumentIsNotAllowed", arg |-> NoArg]
  ELSE [sub |-> "ArgumentIsNotValid", arg |-> NoArg]

\* the operand of a value-family line under the rules of C6, or the sub-kind
\* of its ArgumentIsNotValid error
ValueOperand(t) ==
  IF starts_with(t, "=") THEN
    IF parse_pure(strip_prefix(t)).ok
      THEN [sub |-> "", arg |-> Pure(parse_pure(strip_prefix(t)).n)]
      ELSE [sub |-> "ArgumentValueMustBeNumberic", arg |-> NoArg]
  ELSE IF starts_with(t, "*") THEN
    IF parse_usize(strip_prefix(t)).ok
      THEN [sub |-> "", arg |-> Register(Indirect(parse_usize(strip_prefix(t)).n))]
      ELSE [sub |-> "ArgumentValueMustBeNumberic", arg |-> NoArg]
  ELSE IF parse_usize(t).ok THEN [sub |-> "", arg |-> Register(Direct(parse_usize(t).n))]
  ELSE [sub |-> "ArgumentIsNotValid", arg |-> NoArg]

\* the statement an opcode stands for
StatementOf(opcode) ==
  CASE opcode = Chars("LOAD") -> "Load"
    [] opcode = Chars("ADD") -> "Add"
    [] opcode = Chars("SUB") -> "Sub"
    [] opcode = Chars("MUL") -> "Mul"
    [] opcode = Chars("DIV") -> "Div"
    [] opcode \in {Chars("WRITE"), Chars("OUTPUT")} -> "Output"
    [] opcode = Chars("STORE") -> "Store"
    [] opcode \in {Chars("INPUT"), Chars("READ")} -> "Input"

\* the result the rules give for an operand and an opcode
RuleResult(operand, opcode, l) ==
  IF operand.sub = "" THEN OkSome(Stmt(StatementOf(opcode), operand.arg, l))
  ELSE ArgumentIsNotValid(l, operand.sub)

\* the line has exactly two tokens and its upper-cased head is one of names
TwoTokens(names) ==
  /\ Done
  /\ TokenCount(source) = 2
  /\ UpperCased(HeadOf(source)) \in TextsOf(names)

\* C5: a two-token line whose head is STORE, INPUT or READ is answered by
\* the register rules in order: '*' and a literal n gives Indirect(n), '*'
\* and anything else ArgumentValueMustBeNumeric; a literal n gives
\* Direct(n); a '=' prefix gives PureArgumentIsNotAllowed; anything else
\* ArgumentIsNotValid.  STORE yields Store, INPUT and READ yield Input.
C5_RegisterRules ==
  TwoTokens(RegisterOpcodes)
  => result = RuleResult(RegisterOperand(TailOf(source)),
                         UpperCased(HeadOf(source)), line)

\* READ with a '=' operand, refused as a pure argument
C5_Witness ==
  /\ TwoTokens({"READ"})
  /\ starts_with(TailOf(source), "=")
  /\ result = ArgumentIsNotValid(line, "PureArgumentIsNotAllowed")

\* C6: a two-token line whose head is LOAD, ADD, SUB, MUL, DIV, WRITE or
\* OUTPUT is answered by the value rules in order: '=' and an integer
\* literal n gives Pure(n), '*' and a literal n gives Register(Indirect(n)),
\* either prefix followed by anything else ArgumentValueMustBeNumeric; a
\* literal n gives Register(Direct(n)); anything else ArgumentIsNotValid.
\* WRITE and OUTPUT both yield Output, the others the statement of their name.
C6_ValueRules ==
  TwoTokens(ValueOpcodes)
  => result = RuleResult(ValueOperand(TailOf(source)),
                         UpperCased(HeadOf(source)), line)

\* WRITE with an indirect register operand
C6_Witness ==
  /\ TwoTokens({"WRITE"})
  /\ starts_with(TailOf(source), "*")
  /\ result.tag = "Some" /\ result.kind = "Output"
  /\ result.arg.form = "Register" /\ result.arg.reg = "Indirect"

\* C7: a line that consists of an opcode of the value, label or register
\* family alone, in any letter case, is answered with
\* ArgumentIsRequired(line).
C7_ArgumentIsRequired ==
  (/\ Done
   /\ TokenCount(source) = 1
   /\ UpperCased(HeadOf(source)) \in
        TextsOf(ValueOpcodes \cup LabelOpcodes \cup RegisterOpcodes))
  => result = Err("ArgumentIsRequired", line)

\* a label-family opcode alone on its line, written in lower case
C7_Witness ==
  /\ Done
  /\ TokenCount(source) = 1
  /\ HeadOf(source) \in { Lower(h) : h \in TextsOf(LabelOpcodes) }
  /\ result = Err("ArgumentIsRequired", line)

\* C8: a line of one or two tokens whose head does not end with ':' and is,
\* upper-cased, none of the 17 mnemonics is answered with
\* UnsupportedOpcode(line, U), U the upper-cased head, with and without a tail.
C8_UnsupportedOpcode ==
  (/\ Done
   /\ TokenCount(source) \in {1, 2}
   /\ ~ends_with(HeadOf(source), ":")
   /\ UpperCased(HeadOf(source)) \notin TextsOf(Mnemonics))
  => result = UnsupportedOpcode(line, UpperCased(HeadOf(source)))

\* an unknown lower-case head with a tail that no operand grammar accepts
C8_Witness ==
  /\ Done
  /\ TokenCount(source) = 2
  /\ HeadOf(source) = <<"n", "o", "p">>
  /\ TailOf(source) = <<"=", "a">>
  /\ result = UnsupportedOpcode(line, <<"N", "O", "P">>)

\* the results of the line with the letter case of its head changed, and
\* with the head replaced by its alias, all equal the result of the line
HeadInsensitive ==
  /\ \A v \in CaseVariants(HeadOf(source)) :
       parse_line(ReplaceHead(source, v), line) = result
  /\ \A m \in DOMAIN Alias :
       UpperCased(HeadOf(source)) = Chars(m)
       => parse_line(ReplaceHead(source, Chars(Alias[m])), line) = result

\* C9 as stated: for every line, changing the letter case of the head alone
\* never changes the result of parse_line, and the two heads of an alias
\* pair give the same result.
C9_AnyLine ==
  (Done /\ TokenCount(source) >= 1) => HeadInsensitive

\* C9 amended: the same for every line whose result is not a Label
\* statement; a label declaration keeps the letter case of its name.
C9_OpcodeLine ==
  (/\ Done
   /\ TokenCount(source) >= 1
   /\ ~(result.tag = "Some" /\ result.kind = "Label"))
  => HeadInsensitive

\* the alias jmp in lower case, with a label operand
C9_Witness ==
  /\ Done
  /\ TokenCount(source) = 2
  /\ HeadOf(source) = <<"j", "m", "p">>
  /\ result.tag = "Some" /\ result.kind = "Jump"
  /\ parse_line(ReplaceHead(source, Chars("JUMP")), line) = result

\* C10: parse_line never reaches an unreachable!() arm: it returns a
\* statement, an error or no statement.
C10_NoUnreachable ==
  Done => result.tag \in {"Some", "Err", "None"}

\* the alias JGTZ, routed to parse_with_label, has produced its statement
C10_Witness ==
  /\ TwoTokens({"JGTZ"})
  /\ result.tag = "Some" /\ result.kind = "JumpGreatherZero"

\* what the specification says the first k lines yield: one item for each
\* line with a token before its first '#', the classification of that
\* line's text at the line's 0-based index
RECURSIVE ExpectedItems(_, _)
ExpectedItems(ls, k) ==
  IF k = 0 THEN <<>>
  ELSE LET r == parse_line(ls[k], k - 1) IN
       IF TokenCount(ls[k]) >= 1
         THEN Append(ExpectedItems(ls, k - 1), [r EXCEPT !.tag = IF @ = "Some" THEN "Ok" ELSE @])
         ELSE ExpectedItems(ls, k - 1)

\* C4: the items pulled from parse are, in source order, exactly one item
\* for every consumed line that has a token before its first '#', each the
\* classification of that line alone at its index over all lines; the
\* sequence ends only when every line is consumed, an error item or not.
C4_OneItemPerLine ==
  /\ pc \in {"iter", "end"}
  /\ items = ExpectedItems(lines(text), cursor)
  /\ pc = "end" => cursor = Len(lines(text))

\* a drained text whose first item is an error and whose second item is the
\* statement of a later line, a skipped line between them
C4_Witness ==
  /\ pc = "end"
  /\ Len(items) = 2
  /\ items[1].tag = "Err"
  /\ items[2].tag = "Ok"
  /\ items[2].line = items[1].line + 2

====
